---- MODULE Spec2Model ----
(***************************************************************************)
(* Split execution of a GPT-2 language model (sfl/model/gpt2/gpt2_split.py) *)
(* GPT2SplitLMHeadModel wraps GPT2SplitModel: a stack of n_layer blocks cut *)
(* at split_point_1 and split_point_2 into bottom, trunk and top.          *)
(*                                                                         *)
(* Python None is written NoneVal; a tensor is the record                  *)
(* [pass, ops]: the forward call that produced it and the sequence of      *)
(* operations applied to that call's input, in order.                      *)
(***************************************************************************)
EXTENDS Integers, Sequences, FiniteSets, TLC

\* ------------------------------------------------------------------ bounds
\* Largest number of blocks (config.n_layer) explored.
MaxL == 3
\* Largest number of forward calls in one behaviour.
MaxPass == 2
\* Largest number of segments of a dotted parameter name given to
\* _get_block_num.
MaxSegs == 4
\* Parameter values of one partition are 0..MaxVal.
MaxVal == 2
\* Number of global rounds and of local steps of one client in a round.
MaxRounds == 2
MaxSteps == 2
\* Largest number of parameters handed to one reset_params call.
MaxGiven == 2

VARIABLES
    n_layer,          \* config.n_layer = len(self.h)
    fl_config,        \* self.fl_config: NoneVal or the FLConfig record
    training,         \* self.training
    intermediate_fx,  \* GPT2SplitModel.intermediate_fx: boundary key -> stored tensor
    passes,           \* number of forward calls made so far
    out,              \* what the last forward call returned or raised, and
                      \* the fl_config and training flag it ran under
    query,            \* what the last get_*_grad call returned or raised
    requires_grad,    \* p.requires_grad for every entry of named_parameters()
    yielded,          \* what the last get_*_params call yielded
    fatal,            \* a configuration error has ended the program
    block_num_call,   \* a call of _get_block_num: its argument and result
    keeper,           \* the live bottom/top parameters, the Parameter Keeper's
                      \* per-client copies and the last operation on them
    sim,              \* the simulator's round loop: round, client, position
                      \* in the client's turn, failure log, last event
    reset_call        \* a call of reset_params: its arguments and p.data of
                      \* every parameter

\* The state of the split model, and the state of the components checked on
\* their own.
core == <<n_layer, fl_config, training, intermediate_fx, passes, out, query,
          requires_grad, yielded, fatal>>

aux == <<block_num_call, keeper, sim, reset_call>>

vars == <<core, aux>>

NoneVal == "None"

\* ------------------------------------------------------- parameter names
\* A dotted parameter name is the sequence of its segments.
\* The block-index segments "0", "1", ... and their integer values.
SegToInt == [s \in {"0", "1", "2", "3", "4", "5"} |->
               CASE s = "0" -> 0 [] s = "1" -> 1 [] s = "2" -> 2
                 [] s = "3" -> 3 [] s = "4" -> 4 [] s = "5" -> 5]

IntToSeg(i) == CHOOSE s \in DOMAIN SegToInt : SegToInt[s] = i

\* The parameters declared inside one block, in declaration order (a
\* normalization weight and a residual-projection weight stand for the
\* twelve tensors of a GPT-2 block: all carry the same block prefix).
BlockParamNames == << <<"ln_1", "weight">>, <<"mlp", "c_proj", "weight">> >>

BlockParams(i) ==
    [k \in 1..Len(BlockParamNames) |->
        <<"transformer", "h", IntToSeg(i)>> \o BlockParamNames[k]]

RECURSIVE AllBlockParams(_, _)
AllBlockParams(i, L) ==
    IF i >= L THEN <<>> ELSE BlockParams(i) \o AllBlockParams(i + 1, L)

\* named_parameters() of GPT2LMHeadModel: the embeddings, the blocks in
\* index order, the final norm (lm_head.weight is tied to wte and is not
\* listed a second time).
named_parameters(L) ==
    << <<"transformer", "wte", "weight">>, <<"transformer", "wpe", "weight">> >>
    \o AllBlockParams(0, L)
    \o << <<"transformer", "ln_f", "weight">>, <<"transformer", "ln_f", "bias">> >>

\* regex.findall('\.h\.[0-9]+', param_name): the positions k of a segment
\* "h" that follows a dot (k > 1) and is followed by a numeric segment.
BlockMatches(nm) ==
    {k \in 2..(Len(nm) - 1) : nm[k] = "h" /\ nm[k + 1] \in DOMAIN SegToInt}

Min(S) == CHOOSE x \in S : \A y \in S : x <= y

get_block_num(nm) ==
    IF BlockMatches(nm) # {} THEN SegToInt[nm[Min(BlockMatches(nm)) + 1]] ELSE -1

\* ------------------------------------------------- partition generators
\* Each generator scans named_parameters() from position k on; rg is the
\* requires_grad flag of every position; the result is the sequence of
\* positions yielded, in the order they are yielded.
RECURSIVE BottomScan(_, _, _, _, _)
BottomScan(k, names, rg, trainable_only, sp1) ==
    IF k > Len(names) THEN <<>>
    ELSE IF trainable_only /\ ~rg[k]
         THEN BottomScan(k + 1, names, rg, trainable_only, sp1)
    ELSE IF get_block_num(names[k]) >= sp1 THEN <<>>
    ELSE <<k>> \o BottomScan(k + 1, names, rg, trainable_only, sp1)

get_bottom_params(trainable_only) ==
    BottomScan(1, named_parameters(n_layer), requires_grad, trainable_only,
               fl_config.split_point_1)

RECURSIVE TopScan(_, _, _, _, _, _)
TopScan(k, names, rg, trainable_only, sp2, trunk) ==
    IF k > Len(names) THEN <<>>
    ELSE IF trainable_only /\ ~rg[k]
         THEN TopScan(k + 1, names, rg, trainable_only, sp2, trunk)
    ELSE LET trunk2 == trunk \/ get_block_num(names[k]) >= sp2
         IN  (IF trunk2 THEN <<k>> ELSE <<>>)
             \o TopScan(k + 1, names, rg, trainable_only, sp2, trunk2)

get_top_params(trainable_only) ==
    TopScan(1, named_parameters(n_layer), requires_grad, trainable_only,
            fl_config.split_point_2, FALSE)

RECURSIVE TrunkScan(_, _, _, _, _, _)
TrunkScan(k, names, rg, trainable_only, sp1, sp2) ==
    IF k > Len(names) THEN <<>>
    ELSE IF trainable_only /\ ~rg[k]
         THEN TrunkScan(k + 1, names, rg, trainable_only, sp1, sp2)
    ELSE (IF sp1 <= get_block_num(names[k]) /\ get_block_num(names[k]) < sp2
          THEN <<k>> ELSE <<>>)
         \o TrunkScan(k + 1, names, rg, trainable_only, sp1, sp2)

get_trunk_params(trainable_only) ==
    TrunkScan(1, named_parameters(n_layer), requires_grad, trainable_only,
              fl_config.split_point_1, fl_config.split_point_2)

\* ------------------------------------------------------------- tensors
Tensor(p, ops) == [pass |-> p, ops |-> ops]

\* Python None where a tensor is expected (a tensor's .grad before backward).
NoneTensor == Tensor(0, <<>>)

Apply(t, op) == Tensor(t.pass, Append(t.ops, op))

Block(i) == <<"h", i>>

IsPrefix(s, t) == Len(s) <= Len(t) /\ SubSeq(t, 1, Len(s)) = s

\* ------------------------------------------------------------ FLConfig
AttackModes == {NoneVal, "b2tr", "tr2t"}
NoiseModes == {"none", "gaussian", "dxp"}

\* self.fl_config before config_sfl has run: None.
NoConfig ==
    [present |-> FALSE, split_point_1 |-> 0, split_point_2 |-> 0,
     attack_mode |-> NoneVal, collect_intermediates |-> FALSE,
     noise_mode |-> "none"]

FLConfig(sp1, sp2, attack, collect, noise) ==
    [present |-> TRUE, split_point_1 |-> sp1, split_point_2 |-> sp2,
     attack_mode |-> attack, collect_intermediates |-> collect,
     noise_mode |-> noise]

\* `self.fl_config and self.fl_config.attack_mode`
AttackOn(cfg) == cfg.present /\ cfg.attack_mode # NoneVal

\* ------------------------------------------- GPT2SplitModel.intermediate_fx
B2TR == "bottom_to_trunk"
TR2T == "trunk_to_top"

\* hidden_states.retain_grad() followed by self.intermediate_fx[key] = fx:
\* the dict entry is the tensor object, its retain flag and its .grad.
Stored(t) == [fx |-> t, retains_grad |-> TRUE, grad |-> NoneTensor]

store_bottom_to_trunk_fx(fxs, t) == (B2TR :> Stored(t)) @@ fxs

store_trunk_to_top_fx(fxs, t) == (TR2T :> Stored(t)) @@ fxs

\* ------------------------------------------------ GPT2SplitModel.forward
\* The embedding stage: wte(input_ids), the dxp perturber, the position
\* embedding and dropout; or the caller's inputs_embeds instead of wte.
Embed(p, cfg, inputs_embeds) ==
    LET e0 == IF inputs_embeds THEN Tensor(p, << <<"inputs_embeds">> >>)
              ELSE IF cfg.present /\ cfg.noise_mode = "dxp"
                   THEN Tensor(p, << <<"wte">>, <<"dxp">> >>)
                   ELSE Tensor(p, << <<"wte">> >>)
    IN  Apply(Apply(e0, <<"wpe">>), <<"drop">>)

\* The attack-mode test that follows block i: TRUE when forward returns
\* hidden_states there.
AttackReturn(i, cfg) ==
    AttackOn(cfg)
    /\ \/ i = cfg.split_point_1 - 1 /\ cfg.attack_mode = "b2tr"
       \/ i = cfg.split_point_2 /\ cfg.attack_mode = "tr2t"

\* A collection step whose trunk-top branch stores under the bottom-trunk
\* key, so that one pass leaves a single Intermediate.
Collect_one_key(i, cfg, train, h, fxs) ==
    IF train /\ cfg.present /\ cfg.collect_intermediates
    THEN IF i = cfg.split_point_1 - 1
         THEN LET h2 == IF cfg.noise_mode = "gaussian"
                        THEN Apply(h, <<"gaussian">>) ELSE h
              IN  [hidden |-> h2, fx |-> store_bottom_to_trunk_fx(fxs, h2)]
         ELSE IF i = cfg.split_point_2
         THEN [hidden |-> h, fx |-> store_bottom_to_trunk_fx(fxs, h)]
         ELSE [hidden |-> h, fx |-> fxs]
    ELSE [hidden |-> h, fx |-> fxs]

\* The collection step that follows block i: the hidden state that goes on
\* to the next block and the dict after the step.
Collect(i, cfg, train, h, fxs) ==
    IF train /\ cfg.present /\ cfg.collect_intermediates
    THEN IF i = cfg.split_point_1 - 1
         THEN LET h2 == IF cfg.noise_mode = "gaussian"
                        THEN Apply(h, <<"gaussian">>) ELSE h
              IN  [hidden |-> h2, fx |-> store_bottom_to_trunk_fx(fxs, h2)]
         ELSE IF i = cfg.split_point_2
         THEN [hidden |-> h, fx |-> store_trunk_to_top_fx(fxs, h)]
         ELSE [hidden |-> h, fx |-> fxs]
    ELSE [hidden |-> h, fx |-> fxs]

\* for i, block in enumerate(self.h): st is the loop's state before block i.
RECURSIVE RunBlocks(_, _, _, _, _)
RunBlocks(i, L, cfg, train, st) ==
    IF i >= L THEN st
    ELSE LET h == Apply(st.hidden, Block(i))
             ex == Append(st.executed, i)
         IN  IF AttackReturn(i, cfg)
             THEN [hidden |-> h, fx |-> st.fx, executed |-> ex, returned |-> TRUE]
             ELSE LET c == Collect(i, cfg, train, h, st.fx)
                  IN  RunBlocks(i + 1, L, cfg, train,
                                [hidden |-> c.hidden, fx |-> c.fx,
                                 executed |-> ex, returned |-> FALSE])

\* GPT2SplitModel.forward: kind is "error" (ValueError), "hidden" (the bare
\* hidden_states of an attack-mode return) or "output" (the
\* BaseModelOutputWithPastAndCrossAttentions built after ln_f).
TransformerReturn(st) ==
    IF st.returned
    THEN [kind |-> "hidden", value |-> st.hidden,
          executed |-> st.executed, fx |-> st.fx]
    ELSE [kind |-> "output", value |-> Apply(st.hidden, <<"ln_f">>),
          executed |-> st.executed, fx |-> st.fx]

\* A forward that rejects only the call with neither input and lets
\* inputs_embeds win when both are given.
transformer_forward_neither_only(p, L, cfg, train, fxs, input_ids, inputs_embeds) ==
    IF ~input_ids /\ ~inputs_embeds
    THEN [kind |-> "error", value |-> NoneTensor, executed |-> <<>>, fx |-> fxs]
    ELSE TransformerReturn(
             RunBlocks(0, L, cfg, train,
                       [hidden |-> Embed(p, cfg, inputs_embeds), fx |-> fxs,
                        executed |-> <<>>, returned |-> FALSE]))

transformer_forward(p, L, cfg, train, fxs, input_ids, inputs_embeds) ==
    IF (input_ids /\ inputs_embeds) \/ (~input_ids /\ ~inputs_embeds)
    THEN [kind |-> "error", value |-> NoneTensor, executed |-> <<>>, fx |-> fxs]
    ELSE TransformerReturn(
             RunBlocks(0, L, cfg, train,
                       [hidden |-> Embed(p, cfg, inputs_embeds), fx |-> fxs,
                        executed |-> <<>>, returned |-> FALSE]))

\* GPT2SplitLMHeadModel.forward: in attack mode the transformer's result is
\* returned as it is; otherwise lm_head is applied and, given labels, the
\* loss is computed ("lm_output").
LMReturn(t, cfg, labels) ==
    IF t.kind = "error" \/ AttackOn(cfg)
    THEN [kind |-> t.kind, value |-> t.value, executed |-> t.executed,
          fx |-> t.fx, loss |-> FALSE]
    ELSE [kind |-> "lm_output", value |-> Apply(t.value, <<"lm_head">>),
          executed |-> t.executed, fx |-> t.fx, loss |-> labels]

lm_forward(p, L, cfg, train, fxs, input_ids, inputs_embeds, labels) ==
    LMReturn(transformer_forward(p, L, cfg, train, fxs, input_ids, inputs_embeds),
             cfg, labels)

\* ------------------------------------------------------------ cut_forward
\* GPT2SplitModel.cut_forward: the blocks i >= split_point_2, then ln_f.
RECURSIVE CutBlocks(_, _, _, _)
CutBlocks(i, L, cfg, h) ==
    IF i >= L THEN h
    ELSE IF i < cfg.split_point_2 THEN CutBlocks(i + 1, L, cfg, h)
    ELSE CutBlocks(i + 1, L, cfg, Apply(h, Block(i)))

transformer_cut_forward(L, cfg, h) == Apply(CutBlocks(0, L, cfg, h), <<"ln_f">>)

\* GPT2SplitLMHeadModel.cut_forward
cut_forward(L, cfg, h) == Apply(transformer_cut_forward(L, cfg, h), <<"lm_head">>)

\* ------------------------------------------------------- gradient queries
\* kind is "empty" (the [] result), "pair" ((activation, gradient)) or
\* "error" (AttributeError: .grad is None and .clone() is called on it).
GradQuery(key, detach, fxs) ==
    IF key \in DOMAIN fxs
    THEN IF detach
         THEN IF fxs[key].grad = NoneTensor
              THEN [kind |-> "error", fx |-> NoneTensor, grad |-> NoneTensor]
              ELSE [kind |-> "pair", fx |-> fxs[key].fx, grad |-> fxs[key].grad]
         ELSE [kind |-> "pair", fx |-> fxs[key].fx, grad |-> fxs[key].grad]
    ELSE [kind |-> "empty", fx |-> NoneTensor, grad |-> NoneTensor]

get_top_to_trunk_grad(detach) == GradQuery(TR2T, detach, intermediate_fx)

get_trunk_to_bottom_grad(detach) == GradQuery(B2TR, detach, intermediate_fx)

\* ----------------------------------------------------------------- state
\* The split pairs a configuration may carry: the split points are read
\* from the command line and handed to FLConfig as they are.
SplitPairs(L) == {sp \in (0..L) \X (0..L) : sp[1] < sp[2]}

NoOut ==
    [pass |-> 0, kind |-> NoneVal, value |-> NoneTensor, executed |-> <<>>,
     loss |-> FALSE, backward_done |-> FALSE, input_ids |-> FALSE,
     inputs_embeds |-> FALSE, cfg |-> NoConfig, training |-> FALSE]

NoQuery == [fn |-> NoneVal, detach |-> FALSE, kind |-> NoneVal,
            fx |-> NoneTensor, grad |-> NoneTensor]

\* Nothing yielded yet by any of the three generators.
NotCalled == [called |-> FALSE, trainable_only |-> FALSE, items |-> <<>>]

NoYield == [bottom |-> NotCalled, trunk |-> NotCalled, top |-> NotCalled]

AllTrainable(L) == [k \in 1..Len(named_parameters(L)) |-> TRUE]

\* No call of _get_block_num made.
NoBlockNumCall == [name |-> <<>>, called |-> FALSE, result |-> -1]

\* The simulated clients and the partitions the Parameter Keeper holds a
\* copy of for each of them (the trunk is shared, never stored per client).
Clients == {"a", "b"}
KeptPartitions == {"bottom", "top"}

\* The values of a partition's parameters; Pristine is the pretrained
\* model's, Absent marks a client and partition with nothing stored.
Values == 0..MaxVal
Pristine == 0
Absent == -1

NoOp == [kind |-> NoneVal, client |-> NoneVal, partition |-> NoneVal]

NoKeeper ==
    [live |-> [P \in KeptPartitions |-> Pristine],
     stored |-> [c \in Clients |-> [P \in KeptPartitions |-> Absent]],
     op |-> NoOp]

\* No call of reset_params made.
NoResetCall == [mode |-> NoneVal, given |-> <<>>, called |-> FALSE, data |-> <<>>]

\* The round loop before the simulation starts.
NoSim == [round |-> 0, idx |-> 0, pc |-> "idle", step |-> 0, log |-> {},
          event |-> NoneVal]

\* The components checked on their own are not in use.
AuxIdle ==
    /\ block_num_call = NoBlockNumCall
    /\ keeper = NoKeeper
    /\ sim = NoSim
    /\ reset_call = NoResetCall

\* After construction: nn.Module starts in training mode, the dict of
\* intermediates is empty, no FLConfig has been applied.
Init ==
    /\ n_layer \in 1..MaxL
    /\ fl_config = NoConfig
    /\ training = TRUE
    /\ intermediate_fx = <<>>
    /\ passes = 0
    /\ out = NoOut
    /\ query = NoQuery
    /\ requires_grad = AllTrainable(n_layer)
    /\ yielded = NoYield
    /\ fatal = FALSE
    /\ AuxIdle

\* The split pairs a caller can ask for: split_point_1 and split_point_2
\* are two integers parsed from the command line, below, inside and above
\* the range of block indices.
ArgSplitPairs(L) == (-1..(L + 1)) \X (-1..(L + 1))

\* A validation that misses the strictness of the order test.
ValidSplit_or_equal(sp1, sp2, L) == 0 <= sp1 /\ sp1 <= sp2 /\ sp2 <= L

\* The validation of the split indices when the configuration is built and
\* applied: split_point_1 < split_point_2, both inside [0, L].
ValidSplit(sp1, sp2, L) == 0 <= sp1 /\ sp1 < sp2 /\ sp2 <= L

\* FLConfig(...) followed by config_sfl(config, param_keeper): the model
\* takes the FLConfig, or the configuration error ends the program before
\* anything else runs.
ConfigSfl ==
    /\ ~fatal
    /\ ~fl_config.present
    /\ \E sp \in ArgSplitPairs(n_layer), collect \in BOOLEAN, noise \in NoiseModes :
         IF ValidSplit(sp[1], sp[2], n_layer)
         THEN /\ fl_config' = FLConfig(sp[1], sp[2], NoneVal, collect, noise)
              /\ fatal' = FALSE
         ELSE /\ fl_config' = fl_config
              /\ fatal' = TRUE
    /\ query' = NoQuery
    /\ UNCHANGED <<n_layer, training, intermediate_fx, passes, out,
                   requires_grad, yielded>>
    /\ UNCHANGED aux

\* One call of GPT2SplitLMHeadModel.forward, as its callers make it: the
\* caller has put the model in training or evaluation mode (model.train(),
\* model.eval()) and the strategy has set fl_config.attack_mode for this
\* pass; both stay as set when the call returns.  Without an FLConfig there
\* is no attack_mode to set.  Every parameter is trainable here, so that
\* retain_grad() is legal on every hidden state.
Forward ==
    /\ ~fatal
    /\ passes < MaxPass
    /\ \E train \in BOOLEAN, input_ids \in BOOLEAN, inputs_embeds \in BOOLEAN,
          m \in (IF fl_config.present THEN AttackModes ELSE {NoneVal}) :
       \* labels are read only after the transformer has returned
       \E labels \in (IF input_ids # inputs_embeds THEN BOOLEAN ELSE {FALSE}) :
         LET cfg == [fl_config EXCEPT !.attack_mode = m]
         IN  \E r \in {lm_forward(passes + 1, n_layer, cfg, train, intermediate_fx,
                                   input_ids, inputs_embeds, labels)} :
             /\ fl_config' = cfg
             /\ training' = train
             /\ intermediate_fx' = r.fx
             /\ out' = [pass |-> passes + 1, kind |-> r.kind, value |-> r.value,
                        executed |-> r.executed, loss |-> r.loss,
                        backward_done |-> FALSE, input_ids |-> input_ids,
                        inputs_embeds |-> inputs_embeds, cfg |-> cfg,
                        training |-> train]
    /\ passes' = passes + 1
    /\ query' = NoQuery
    /\ UNCHANGED <<n_layer, requires_grad, yielded, fatal>>
    /\ UNCHANGED aux

\* loss.backward() on the loss of the last forward call: every stored tensor
\* that retains its gradient and lies on the path to that loss gets a .grad.
InGraph(t, loss) == t.pass = loss.pass /\ IsPrefix(t.ops, loss.ops)

BackwardFx(fxs, loss) ==
    [k \in DOMAIN fxs |->
        IF fxs[k].retains_grad /\ InGraph(fxs[k].fx, loss)
        THEN [fxs[k] EXCEPT !.grad = Tensor(loss.pass, << <<"grad">> >>)]
        ELSE fxs[k]]

Backward ==
    /\ ~fatal
    /\ out.kind = "lm_output"
    /\ out.loss
    /\ ~out.backward_done
    /\ intermediate_fx' = BackwardFx(intermediate_fx, out.value)
    /\ out' = [out EXCEPT !.backward_done = TRUE]
    /\ query' = NoQuery
    /\ UNCHANGED <<n_layer, fl_config, training, passes, requires_grad, yielded,
                   fatal>>
    /\ UNCHANGED aux

\* cut_forward on a trunk-to-top boundary tensor: the stored Intermediate,
\* or the tensor the last forward call returned under attack_mode 'tr2t'.
CutForward ==
    /\ ~fatal
    /\ fl_config.present
    /\ \E h \in {intermediate_fx[k].fx : k \in DOMAIN intermediate_fx \cap {TR2T}}
              \cup {out.value : x \in {1} \cap
                       (IF out.kind = "hidden" /\ out.cfg.attack_mode = "tr2t"
                        THEN {1} ELSE {})} :
         out' = [out EXCEPT !.kind = "cut_output",
                            !.pass = h.pass,
                            !.value = cut_forward(n_layer, fl_config, h),
                            !.loss = FALSE,
                            !.backward_done = FALSE]
    /\ query' = NoQuery
    /\ UNCHANGED <<n_layer, fl_config, training, intermediate_fx, passes,
                   requires_grad, yielded, fatal>>
    /\ UNCHANGED aux

CallGetTopToTrunkGrad ==
    /\ ~fatal
    /\ \E detach \in BOOLEAN :
         LET r == get_top_to_trunk_grad(detach)
         IN  query' = [fn |-> "get_top_to_trunk_grad", detach |-> detach,
                       kind |-> r.kind, fx |-> r.fx, grad |-> r.grad]
    /\ UNCHANGED <<n_layer, fl_config, training, intermediate_fx, passes, out,
                   requires_grad, yielded, fatal>>
    /\ UNCHANGED aux

CallGetTrunkToBottomGrad ==
    /\ ~fatal
    /\ \E detach \in BOOLEAN :
         LET r == get_trunk_to_bottom_grad(detach)
         IN  query' = [fn |-> "get_trunk_to_bottom_grad", detach |-> detach,
                       kind |-> r.kind, fx |-> r.fx, grad |-> r.grad]
    /\ UNCHANGED <<n_layer, fl_config, training, intermediate_fx, passes, out,
                   requires_grad, yielded, fatal>>
    /\ UNCHANGED aux

Next ==
    \/ ConfigSfl
    \/ Forward
    \/ Backward
    \/ CutForward
    \/ CallGetTopToTrunkGrad
    \/ CallGetTrunkToBottomGrad

Spec == Init /\ [][Next]_vars

\* ------------------------------------------- the partition generators run
\* Inputs of the generators: a layer count, a split pair and one
\* requires_grad flag per parameter.
InitParams ==
    /\ n_layer \in 1..MaxL
    /\ \E sp \in SplitPairs(n_layer) :
         fl_config = FLConfig(sp[1], sp[2], NoneVal, TRUE, "none")
    /\ training = TRUE
    /\ intermediate_fx = <<>>
    /\ passes = 0
    /\ out = NoOut
    /\ query = NoQuery
    /\ requires_grad \in [1..Len(named_parameters(n_layer)) -> BOOLEAN]
    /\ yielded = NoYield
    /\ fatal = FALSE
    /\ AuxIdle

Yielded(trainable_only, items) ==
    [called |-> TRUE, trainable_only |-> trainable_only, items |-> items]

\* list(model.get_bottom_params(trainable_only))
CallGetBottomParams ==
    /\ \E t \in BOOLEAN :
         yielded' = [yielded EXCEPT !.bottom = Yielded(t, get_bottom_params(t))]
    /\ UNCHANGED <<n_layer, fl_config, training, intermediate_fx, passes, out,
                   query, requires_grad, fatal>>
    /\ UNCHANGED aux

\* list(model.get_trunk_params(trainable_only))
CallGetTrunkParams ==
    /\ \E t \in BOOLEAN :
         yielded' = [yielded EXCEPT !.trunk = Yielded(t, get_trunk_params(t))]
    /\ UNCHANGED <<n_layer, fl_config, training, intermediate_fx, passes, out,
                   query, requires_grad, fatal>>
    /\ UNCHANGED aux

\* list(model.get_top_params(trainable_only))
CallGetTopParams ==
    /\ \E t \in BOOLEAN :
         yielded' = [yielded EXCEPT !.top = Yielded(t, get_top_params(t))]
    /\ UNCHANGED <<n_layer, fl_config, training, intermediate_fx, passes, out,
                   query, requires_grad, fatal>>
    /\ UNCHANGED aux

NextParams ==
    \/ CallGetBottomParams
    \/ CallGetTrunkParams
    \/ CallGetTopParams

SpecParams == InitParams /\ [][NextParams]_vars

\* ------------------------------------------------- _get_block_num alone
\* The segments the names given to _get_block_num are built from.  Every
\* segment is either a number or starts with a letter, as the path segments
\* of module and parameter names do.
NameSegments == {"transformer", "h", "0", "3", "ln_1", "weight"}

RECURSIVE NamesOfLen(_)
NamesOfLen(k) ==
    IF k = 0 THEN {<<>>}
    ELSE {Append(nm, seg) : nm \in NamesOfLen(k - 1), seg \in NameSegments}

\* The model in its constructed state, with one block.
CoreIdle ==
    /\ n_layer = 1
    /\ fl_config = NoConfig
    /\ training = TRUE
    /\ intermediate_fx = <<>>
    /\ passes = 0
    /\ out = NoOut
    /\ query = NoQuery
    /\ requires_grad = AllTrainable(1)
    /\ yielded = NoYield
    /\ fatal = FALSE

InitBlockNum ==
    /\ CoreIdle
    /\ keeper = NoKeeper
    /\ sim = NoSim
    /\ reset_call = NoResetCall
    /\ \E k \in 1..MaxSegs : \E nm \in NamesOfLen(k) :
         block_num_call = [name |-> nm, called |-> FALSE, result |-> -1]

\* GPT2SplitLMHeadModel._get_block_num(param_name)
CallGetBlockNum ==
    /\ ~block_num_call.called
    /\ block_num_call' = [block_num_call EXCEPT
                            !.called = TRUE,
                            !.result = get_block_num(block_num_call.name)]
    /\ UNCHANGED <<core, keeper, sim, reset_call>>

NextBlockNum == CallGetBlockNum

SpecBlockNum == InitBlockNum /\ [][NextBlockNum]_vars

\* ------------------------------------------------ Parameter Keeper alone
\* A store that keys the copy by the partition alone, so that every
\* client's entry is written.
store_by_partition(k, c, P) ==
    [k EXCEPT !.stored = [d \in Clients |->
                            [k.stored[d] EXCEPT ![P] = k.live[P]]]]

\* store(client_id, partition, named_params): a deep copy of the live
\* values under the client's id.
store(k, c, P) == [k EXCEPT !.stored[c][P] = k.live[P]]

\* restore(client_id, partition): the live values are overwritten in place
\* from the client's copy; a client not yet present gets the pristine
\* pretrained values.
restore(k, c, P) ==
    [k EXCEPT !.live[P] = IF k.stored[c][P] = Absent THEN Pristine
                          ELSE k.stored[c][P]]

\* An optimizer step or any other in-place write of the live parameters.
mutate_live(k, P, v) == [k EXCEPT !.live[P] = v]

InitKeeper ==
    /\ CoreIdle
    /\ block_num_call = NoBlockNumCall
    /\ keeper = NoKeeper
    /\ sim = NoSim
    /\ reset_call = NoResetCall

KeeperStore ==
    /\ \E c \in Clients, P \in KeptPartitions :
         keeper' = [store(keeper, c, P) EXCEPT
                      !.op = [kind |-> "store", client |-> c, partition |-> P]]
    /\ UNCHANGED <<core, block_num_call, sim, reset_call>>

KeeperRestore ==
    /\ \E c \in Clients, P \in KeptPartitions :
         keeper' = [restore(keeper, c, P) EXCEPT
                      !.op = [kind |-> "restore", client |-> c, partition |-> P]]
    /\ UNCHANGED <<core, block_num_call, sim, reset_call>>

MutateLive ==
    /\ \E P \in KeptPartitions, v \in Values :
         keeper' = [mutate_live(keeper, P, v) EXCEPT
                      !.op = [kind |-> "mutate", client |-> NoneVal, partition |-> P]]
    /\ UNCHANGED <<core, block_num_call, sim, reset_call>>

NextKeeper ==
    \/ KeeperStore
    \/ KeeperRestore
    \/ MutateLive

SpecKeeper == InitKeeper /\ [][NextKeeper]_vars

\* ------------------------------------------------ the simulator's rounds
\* The clients of a round take their turns one after the other, in this
\* order.
ClientOrder == <<"a", "b">>

\* The Keeper's operations on both kept partitions of one client.
restore_client(k, c) ==
    [restore(restore(k, c, "bottom"), c, "top") EXCEPT
        !.op = [kind |-> "restore", client |-> c, partition |-> "bottom+top"]]

store_client(k, c) ==
    [store(store(k, c, "bottom"), c, "top") EXCEPT
        !.op = [kind |-> "store", client |-> c, partition |-> "bottom+top"]]

\* One successful local step: forward, loss, backward and an optimizer step
\* that moves the live bottom and top parameters by the update d.
train_step(k, d) ==
    [k EXCEPT !.live = [P \in KeptPartitions |-> (k.live[P] + d) % (MaxVal + 1)],
              !.op = [kind |-> "mutate", client |-> NoneVal,
                      partition |-> "bottom+top"]]

\* A failure handler that writes the client's state back on its way out.
step_failed_store_back(k, c) == store_client(k, c)

\* The Keeper after a failed local step of client c: the failure is caught
\* by the round loop, nothing is written back.
step_failed(k, c) == k

\* The position after client idx of round r has finished or been abandoned:
\* the next client, the next round, or the end of the simulation.
Advance(s) ==
    IF s.idx < Len(ClientOrder)
    THEN [s EXCEPT !.idx = s.idx + 1, !.pc = "restore", !.step = 0]
    ELSE IF s.round < MaxRounds
    THEN [s EXCEPT !.round = s.round + 1, !.idx = 1, !.pc = "restore", !.step = 0]
    ELSE [s EXCEPT !.pc = "done", !.step = 0]

InitRounds ==
    /\ CoreIdle
    /\ block_num_call = NoBlockNumCall
    /\ reset_call = NoResetCall
    /\ keeper = NoKeeper
    /\ sim = [round |-> 1, idx |-> 1, pc |-> "restore", step |-> 0, log |-> {},
              event |-> NoneVal]

\* 2a: the Keeper restores the client's bottom/top state into the live model.
SimRestore ==
    /\ sim.pc = "restore"
    /\ keeper' = restore_client(keeper, ClientOrder[sim.idx])
    /\ sim' = [sim EXCEPT !.pc = "step", !.step = 0, !.event = "restored"]
    /\ UNCHANGED <<core, block_num_call, reset_call>>

\* 2b: one local step that completes.
SimStep ==
    /\ sim.pc = "step"
    /\ sim.step < MaxSteps
    /\ \E d \in 1..MaxVal : keeper' = train_step(keeper, d)
    /\ sim' = [sim EXCEPT !.step = sim.step + 1,
                          !.pc = IF sim.step + 1 = MaxSteps THEN "attack" ELSE "step",
                          !.event = "stepped"]
    /\ UNCHANGED <<core, block_num_call, reset_call>>

\* 2b: one local step that fails (a malformed batch, a numerical error): the
\* client's inner loop is aborted and the failure logged.
SimStepFails ==
    /\ sim.pc = "step"
    /\ sim.step < MaxSteps
    /\ keeper' = step_failed(keeper, ClientOrder[sim.idx])
    /\ sim' = [Advance(sim) EXCEPT
                   !.log = sim.log \cup {<<sim.round, ClientOrder[sim.idx]>>},
                   !.event = "step_failed"]
    /\ UNCHANGED <<core, block_num_call, reset_call>>

\* 2c: the attack hook reads the Intermediates; it writes no parameter.
SimAttackHook ==
    /\ sim.pc = "attack"
    /\ sim' = [sim EXCEPT !.pc = "store", !.event = "attacked"]
    /\ UNCHANGED <<core, block_num_call, keeper, reset_call>>

\* 2d: the Keeper stores the client's updated bottom/top state back.
SimStore ==
    /\ sim.pc = "store"
    /\ keeper' = store_client(keeper, ClientOrder[sim.idx])
    /\ sim' = [Advance(sim) EXCEPT !.event = "stored"]
    /\ UNCHANGED <<core, block_num_call, reset_call>>

NextRounds ==
    \/ SimRestore
    \/ SimStep
    \/ SimStepFails
    \/ SimAttackHook
    \/ SimStore

SpecRounds == InitRounds /\ [][NextRounds]_vars

\* --------------------------------------------------- reset_params alone
\* The twelve tensors of a GPT-2 block, in declaration order.
GPT2BlockParamNames ==
    << <<"ln_1", "weight">>, <<"ln_1", "bias">>,
       <<"attn", "c_attn", "weight">>, <<"attn", "c_attn", "bias">>,
       <<"attn", "c_proj", "weight">>, <<"attn", "c_proj", "bias">>,
       <<"ln_2", "weight">>, <<"ln_2", "bias">>,
       <<"mlp", "c_fc", "weight">>, <<"mlp", "c_fc", "bias">>,
       <<"mlp", "c_proj", "weight">>, <<"mlp", "c_proj", "bias">> >>

\* The names reset_params can be given: the fully-qualified names of the
\* parameters of a model with one block, as get_*_params yield them, and
\* the module-relative name "c_proj.weight".
ResetNames ==
    << <<"transformer", "wte", "weight">>, <<"transformer", "wpe", "weight">> >>
    \o [k \in 1..Len(GPT2BlockParamNames) |->
           <<"transformer", "h", "0">> \o GPT2BlockParamNames[k]]
    \o << <<"transformer", "ln_f", "weight">>, <<"transformer", "ln_f", "bias">>,
          <<"c_proj", "weight">> >>

\* 'sub' in name: the substrings tested hold no dot, so each lies inside one
\* segment of the name; these are the segments that contain each of them.
SegmentsWith ==
    [sub \in {"ln_", "bias", "weight", "mlp", "wte", "wpe"} |->
        CASE sub = "ln_" -> {"ln_1", "ln_2", "ln_f"}
          [] sub = "bias" -> {"bias"}
          [] sub = "weight" -> {"weight"}
          [] sub = "mlp" -> {"mlp"}
          [] sub = "wte" -> {"wte"}
          [] sub = "wpe" -> {"wpe"}]

InName(sub, nm) == \E j \in 1..Len(nm) : nm[j] \in SegmentsWith[sub]

\* The body of the loop of reset_params for one (name, p): p.data after it.
\* "zero" is zero_(), "one" fill_(1.0), "normal" normal_ with std
\* initializer_range, "normal_scaled" normal_ with std
\* initializer_range / sqrt(2 * n_layer).
reset_one(nm, reset_mode, old) ==
    IF reset_mode = "Embedding" /\ (InName("wte", nm) \/ InName("wpe", nm))
    THEN old
    ELSE LET v == IF InName("ln_", nm)
                  THEN IF InName("bias", nm) THEN "zero"
                       ELSE IF InName("weight", nm) THEN "one" ELSE old
                  ELSE IF InName("mlp", nm) \/ InName("wte", nm) \/ InName("wpe", nm)
                  THEN IF InName("weight", nm) THEN "normal"
                       ELSE IF InName("bias", nm) THEN "zero" ELSE old
                  ELSE old
         IN  IF nm = <<"c_proj", "weight">> THEN "normal_scaled" ELSE v

\* for name, p in named_params: given is the list of positions in
\* ResetNames, data maps every position to its p.data.
RECURSIVE reset_params(_, _, _)
reset_params(given, reset_mode, data) ==
    IF given = <<>> THEN data
    ELSE reset_params(Tail(given), reset_mode,
                      [data EXCEPT ![Head(given)] =
                          reset_one(ResetNames[Head(given)], reset_mode, @)])

\* The lists of at most k positions of ResetNames; a generator yields them
\* in ascending (declaration) order.
RECURSIVE Lists(_)
Lists(k) ==
    IF k = 0 THEN {<<>>}
    ELSE Lists(k - 1) \cup
         {Append(l, i) : l \in {m \in Lists(k - 1) : Len(m) = k - 1},
                         i \in 1..Len(ResetNames)}

ResetModes == {"Embedding", "Full"}

InitReset ==
    /\ CoreIdle
    /\ block_num_call = NoBlockNumCall
    /\ keeper = NoKeeper
    /\ sim = NoSim
    /\ \E mode \in ResetModes :
       \E given \in {l \in Lists(MaxGiven) :
                        \A j \in 1..(Len(l) - 1) : l[j] < l[j + 1]} :
         reset_call = [mode |-> mode, given |-> given, called |-> FALSE,
                       data |-> [i \in 1..Len(ResetNames) |-> "pretrained"]]

\* model.reset_params(named_params, reset_mode)
CallResetParams ==
    /\ ~reset_call.called
    /\ reset_call' = [reset_call EXCEPT
                        !.called = TRUE,
                        !.data = reset_params(reset_call.given, reset_call.mode,
                                              reset_call.data)]
    /\ UNCHANGED <<core, block_num_call, keeper, sim>>

NextReset == CallResetParams

SpecReset == InitReset /\ [][NextReset]_vars

\* ------------------------------------------------------------------ claims
\* Vocabulary of the properties below.
Count(seq, x) == Cardinality({j \in 1..Len(seq) : seq[j] = x})

Names == named_parameters(n_layer)

\* The ownership rule of the data model: a block parameter belongs to the
\* partition of its block; the embeddings go to bottom, everything else
\* outside the blocks (final norm, head) to top.
Owner(nm) ==
    LET b == get_block_num(nm)
    IN  IF b >= 0
        THEN IF b < fl_config.split_point_1 THEN "bottom"
             ELSE IF b < fl_config.split_point_2 THEN "trunk" ELSE "top"
        ELSE IF nm[2] \in {"wte", "wpe"} THEN "bottom" ELSE "top"

\* The positions of named_parameters() that are trainable and owned by
\* partition P, in declaration order.
RECURSIVE OwnedFrom(_, _)
OwnedFrom(k, P) ==
    IF k > Len(Names) THEN <<>>
    ELSE (IF requires_grad[k] /\ Owner(Names[k]) = P THEN <<k>> ELSE <<>>)
         \o OwnedFrom(k + 1, P)

\* The block indices applied to a tensor, in the order they were applied.
BlocksOf(ops) ==
    LET hs == SelectSeq(ops, LAMBDA o : o[1] = "h")
    IN  [j \in 1..Len(hs) |-> hs[j][2]]

LastBlock(t) == BlocksOf(t.ops)[Len(BlocksOf(t.ops))]

Has(t, op) == \E j \in 1..Len(t.ops) : t.ops[j] = op

\* The last thing that ran is a forward call that returned.
ForwardReturned ==
    /\ out.pass = passes
    /\ out.kind \in {"hidden", "output", "lm_output"}

\* ... with collect_intermediates set, in training mode, attack_mode unset.
CollectingPass ==
    /\ ForwardReturned
    /\ out.cfg.present
    /\ out.training
    /\ out.cfg.collect_intermediates
    /\ out.cfg.attack_mode = NoneVal

StoredNow(key) ==
    key \in DOMAIN intermediate_fx /\ intermediate_fx[key].fx.pass = out.pass

Interior(cfg) ==
    /\ cfg.present
    /\ 0 < cfg.split_point_1
    /\ cfg.split_point_1 < cfg.split_point_2
    /\ cfg.split_point_2 < n_layer

\* The last forward call ran under a split pair with
\* 0 < split_point_1 < split_point_2 < L.
InteriorSplit == Interior(out.cfg)

\* C1: with trainable_only = False the three generators together yield
\* every entry of named_parameters() exactly once (no overlap, no gap), for
\* every split pair 0 <= split_point_1 < split_point_2 <= L.
C1_TruePartition ==
    (/\ yielded.bottom.called /\ ~yielded.bottom.trainable_only
     /\ yielded.trunk.called /\ ~yielded.trunk.trainable_only
     /\ yielded.top.called /\ ~yielded.top.trainable_only)
    => \A k \in 1..Len(Names) :
          Count(yielded.bottom.items \o yielded.trunk.items \o yielded.top.items,
                k) = 1

\* C2: with trainable_only = True each generator yields exactly the
\* trainable parameters the ownership rule gives its partition, in
\* declaration order.
C2_TrainableByOwner ==
    /\ (yielded.bottom.called /\ yielded.bottom.trainable_only)
          => yielded.bottom.items = OwnedFrom(1, "bottom")
    /\ (yielded.trunk.called /\ yielded.trunk.trainable_only)
          => yielded.trunk.items = OwnedFrom(1, "trunk")
    /\ (yielded.top.called /\ yielded.top.trainable_only)
          => yielded.top.items = OwnedFrom(1, "top")

\* C3: after a collecting training pass the tensor stored for tr2t is the
\* output of block split_point_2 - 1 and the tensor stored for b2tr is the
\* output of block split_point_1 - 1 (stated for the split pairs with
\* 0 < split_point_1 < split_point_2 < L, where both boundaries lie between
\* two blocks).
C3_BoundaryBlocks ==
    (CollectingPass /\ InteriorSplit) =>
        /\ StoredNow(TR2T) =>
              LastBlock(intermediate_fx[TR2T].fx) = out.cfg.split_point_2 - 1
        /\ StoredNow(B2TR) =>
              LastBlock(intermediate_fx[B2TR].fx) = out.cfg.split_point_1 - 1

\* C4: cut_forward on a tr2t boundary tensor of a forward pass yields a
\* result on which every block 0..L-1 has been applied exactly once, in
\* index order, followed by the final norm and the head (stated for
\* 0 < split_point_1 < split_point_2 < L).
C4_RoundTrip ==
    (out.kind = "cut_output" /\ Interior(fl_config)) =>
        /\ BlocksOf(out.value.ops) = [j \in 1..n_layer |-> j - 1]
        /\ Count(out.value.ops, <<"ln_f">>) = 1
        /\ out.value.ops[Len(out.value.ops) - 1] = <<"ln_f">>
        /\ out.value.ops[Len(out.value.ops)] = <<"lm_head">>

\* C5: a forward call under attack_mode 'b2tr' returns the hidden state
\* right after block split_point_1 - 1: the blocks executed are exactly
\* 0..split_point_1 - 1, and neither ln_f, lm_head nor the loss is computed.
C5_B2trReturnsAtBoundary ==
    (ForwardReturned /\ out.cfg.present /\ out.cfg.attack_mode = "b2tr")
    => /\ out.kind = "hidden"
       /\ out.executed = [j \in 1..out.cfg.split_point_1 |-> j - 1]
       /\ BlocksOf(out.value.ops) = out.executed
       /\ ~Has(out.value, <<"ln_f">>)
       /\ ~Has(out.value, <<"lm_head">>)
       /\ ~out.loss

\* C6: a training pass with collect_intermediates and attack_mode both set
\* never stores the other boundary's Intermediate (stated for
\* 0 < split_point_1 < split_point_2 < L).
C6_NoOtherBoundaryCollected ==
    (ForwardReturned /\ InteriorSplit /\ out.training
       /\ out.cfg.collect_intermediates)
    => /\ out.cfg.attack_mode = "tr2t" => ~StoredNow(B2TR)
       /\ out.cfg.attack_mode = "b2tr" => ~StoredNow(TR2T)

\* C7: for 0 < split_point_1 < split_point_2 < L a completed collecting
\* training pass leaves exactly the two Intermediates of that pass stored,
\* both retaining their gradient; after the backward pass both queries
\* return an (activation, gradient) pair with a gradient, for either detach.
C7_TwoIntermediates ==
    (CollectingPass /\ InteriorSplit) =>
        /\ DOMAIN intermediate_fx = {B2TR, TR2T}
        /\ \A k \in {B2TR, TR2T} :
              StoredNow(k) /\ intermediate_fx[k].retains_grad
        /\ out.backward_done =>
              \A d \in BOOLEAN :
                 /\ get_top_to_trunk_grad(d).kind = "pair"
                 /\ get_top_to_trunk_grad(d).fx = intermediate_fx[TR2T].fx
                 /\ get_top_to_trunk_grad(d).grad # NoneTensor
                 /\ get_trunk_to_bottom_grad(d).kind = "pair"
                 /\ get_trunk_to_bottom_grad(d).fx = intermediate_fx[B2TR].fx
                 /\ get_trunk_to_bottom_grad(d).grad # NoneTensor

C7_Witness ==
    /\ CollectingPass
    /\ InteriorSplit
    /\ out.backward_done
    /\ query.fn = "get_top_to_trunk_grad"
    /\ query.detach
    /\ query.kind = "pair"

\* No backward pass has yet reached a stored Intermediate: nothing has run,
\* only non-collecting passes have, or a collecting forward pass has run
\* without its backward pass.
NoGradientYet ==
    \A k \in DOMAIN intermediate_fx : intermediate_fx[k].grad = NoneTensor

\* C8: before a collecting forward pass and its backward pass have
\* completed, both gradient queries return the empty result for either
\* value of detach, without an error.
C8_EmptyBeforeBackward ==
    (query.fn # NoneVal /\ NoGradientYet /\ Interior(fl_config))
    => query.kind = "empty"

\* C9: a gradient query issued after forward pass k never returns a tensor
\* of a pass earlier than k.
C9_NoStaleIntermediate ==
    (ForwardReturned /\ InteriorSplit /\ query.kind = "pair")
    => query.fx.pass = out.pass

\* C10: a forward call given both input_ids and inputs_embeds, or neither,
\* raises before any block runs and leaves intermediate_fx as it was.
C10_DualSpecificationError ==
    [][(passes' = passes + 1 /\ out'.input_ids = out'.inputs_embeds)
         => /\ out'.kind = "error"
            /\ out'.executed = <<>>
            /\ intermediate_fx' = intermediate_fx]_vars

C10_Witness ==
    /\ out.pass = passes
    /\ out.kind = "error"
    /\ out.input_ids
    /\ out.inputs_embeds
    /\ DOMAIN intermediate_fx = {B2TR, TR2T}

\* A configuration whose split indices are invalid.
InvalidSplit(cfg) ==
    /\ cfg.present
    /\ \/ cfg.split_point_1 >= cfg.split_point_2
       \/ cfg.split_point_1 < 0 \/ cfg.split_point_1 > n_layer
       \/ cfg.split_point_2 < 0 \/ cfg.split_point_2 > n_layer

\* C11: a configuration with invalid split indices (split_point_1 >=
\* split_point_2, or an index outside [0, L]) is rejected with a fatal error
\* when it is built and applied, so the model never holds such a
\* configuration, no forward pass runs under one, and nothing runs after
\* the rejection.
C11_InvalidSplitRejected ==
    /\ ~InvalidSplit(fl_config)
    /\ ~InvalidSplit(out.cfg)
    /\ fatal => ~fl_config.present /\ query = NoQuery

C11_Witness == fatal /\ ~fl_config.present /\ passes = 0

\* The positions of a block-list segment "h" directly followed by a block
\* index, wherever in the name it stands.
BlockSegments(nm) ==
    {k \in 1..(Len(nm) - 1) : nm[k] = "h" /\ nm[k + 1] \in DOMAIN SegToInt}

\* C12: _get_block_num returns the index that directly follows the
\* block-list segment "h" the parameter is nested under (the first one,
\* whatever numeric or sub-module segments come later) and -1 exactly when
\* the name has no such segment, with or without a prefix before "h".
C12_BlockIndexOfName ==
    block_num_call.called =>
        LET nm == block_num_call.name
        IN  IF BlockSegments(nm) = {}
            THEN block_num_call.result = -1
            ELSE block_num_call.result = SegToInt[nm[Min(BlockSegments(nm)) + 1]]

\* C13: under any sequence of store, restore and live mutations, a restore
\* for client a and partition P sets the live parameters of P to exactly
\* the values last stored for (a, P), which only a store for (a, P) writes:
\* a store copies the live values of P into the entry of (a, P) and no
\* other; a restore and a live mutation change no stored copy at all.
C13_KeeperRoundTrip ==
    [][LET op == keeper'.op
       IN  /\ op.kind = "store" =>
                /\ keeper'.stored[op.client][op.partition]
                      = keeper.live[op.partition]
                /\ \A c \in Clients, P \in KeptPartitions :
                      (c # op.client \/ P # op.partition)
                      => keeper'.stored[c][P] = keeper.stored[c][P]
                /\ keeper'.live = keeper.live
           /\ op.kind = "restore" =>
                /\ keeper.stored[op.client][op.partition] # Absent
                      => keeper'.live[op.partition]
                           = keeper.stored[op.client][op.partition]
                /\ keeper'.stored = keeper.stored
           /\ op.kind = "mutate" => keeper'.stored = keeper.stored]_vars

\* Both clients hold different copies of one partition, the live values
\* have been written since, and client a's copy has just been restored.
C13_Witness ==
    /\ keeper.op = [kind |-> "restore", client |-> "a", partition |-> "bottom"]
    /\ keeper.stored["a"]["bottom"] # Absent
    /\ keeper.stored["b"]["bottom"] # Absent
    /\ keeper.stored["a"]["bottom"] # keeper.stored["b"]["bottom"]
    /\ keeper.live["bottom"] = keeper.stored["a"]["bottom"]
    /\ keeper.live["top"] # keeper.stored["a"]["top"]

\* C14: when a local step of client c fails in round r, the client's turn
\* ends without the store-back of step 2d: no stored copy changes (c's stays
\* at its last stored value, the other clients' too), the failure is
\* logged, and the loop goes on with the next client or round (or ends
\* after the last client of the last round); a store-back only ever
\* happens for a client that has not failed in that round.
C14_FailureSkipsStoreBack ==
    [][LET c == ClientOrder[sim.idx]
       IN  /\ sim'.event = "step_failed" =>
                /\ keeper'.stored = keeper.stored
                /\ <<sim.round, c>> \in sim'.log
                /\ \/ sim'.pc = "restore" /\ sim'.round = sim.round
                                         /\ sim'.idx = sim.idx + 1
                   \/ sim'.pc = "restore" /\ sim'.round = sim.round + 1
                                         /\ sim'.idx = 1
                                         /\ sim.idx = Len(ClientOrder)
                   \/ sim'.pc = "done" /\ sim.round = MaxRounds
                                      /\ sim.idx = Len(ClientOrder)
           /\ sim'.event = "stored" =>
                /\ <<sim.round, c>> \notin sim.log
                /\ \A d \in Clients \ {c} :
                      keeper'.stored[d] = keeper.stored[d]]_vars

\* Client a stored its state in round 1, then in round 2 completed one step
\* and failed the next: its copy is still the one of round 1.
C14_Witness ==
    /\ sim.event = "step_failed"
    /\ <<2, "a">> \in sim.log
    /\ <<1, "a">> \notin sim.log
    /\ keeper.stored["a"]["bottom"] # Absent
    /\ keeper.live["bottom"] # keeper.stored["a"]["bottom"]
    /\ sim.round = 2 /\ sim.idx = 2 /\ sim.pc = "restore"

LastOp(t) == t.ops[Len(t.ops)]

\* C15: in a collecting training pass with noise_mode 'gaussian' the noise
\* is applied at each of the two boundaries before the store, and the
\* stored tensor is the noised tensor that goes on to the next block
\* (stated for 0 < split_point_1 < split_point_2 < L).
C15_GaussianStoredAndForwarded ==
    (CollectingPass /\ InteriorSplit /\ out.cfg.noise_mode = "gaussian") =>
        \A k \in {B2TR, TR2T} :
            /\ StoredNow(k)
            /\ LastOp(intermediate_fx[k].fx) = <<"gaussian">>
            /\ IsPrefix(intermediate_fx[k].fx.ops, out.value.ops)

\* C16: a forward pass with attack_mode set returns the raw boundary
\* tensor: neither the dxp perturbation nor the gaussian noise has been
\* applied on the way to it (stated for 0 < split_point_1 < split_point_2
\* < L and a call given input_ids).
C16_AttackReturnsRaw ==
    (ForwardReturned /\ InteriorSplit /\ AttackOn(out.cfg) /\ out.input_ids) =>
        /\ out.kind = "hidden"
        /\ ~Has(out.value, <<"dxp">>)
        /\ ~Has(out.value, <<"gaussian">>)

\* C17: with split_point_1 = 0 the b2tr boundary is the embedding output:
\* a collecting training pass stores as b2tr the tensor fed to block 0, and
\* a pass under attack_mode 'b2tr' returns the embedding output with no
\* block executed.
C17_EmptyBottomBoundary ==
    (ForwardReturned /\ out.cfg.present /\ out.cfg.split_point_1 = 0) =>
        /\ CollectingPass =>
              /\ StoredNow(B2TR)
              /\ BlocksOf(intermediate_fx[B2TR].fx.ops) = <<>>
              /\ IsPrefix(intermediate_fx[B2TR].fx.ops, out.value.ops)
        /\ out.cfg.attack_mode = "b2tr" =>
              /\ out.kind = "hidden"
              /\ out.executed = <<>>
              /\ BlocksOf(out.value.ops) = <<>>

\* C19: whenever Intermediates are stored for both boundaries, both come
\* from the same forward pass, and so do the tensors the two gradient
\* queries return.
C19_SamePassIntermediates ==
    (DOMAIN intermediate_fx = {B2TR, TR2T}) =>
        /\ intermediate_fx[B2TR].fx.pass = intermediate_fx[TR2T].fx.pass
        /\ \A d \in BOOLEAN :
              (/\ get_trunk_to_bottom_grad(d).kind = "pair"
               /\ get_top_to_trunk_grad(d).kind = "pair")
              => get_trunk_to_bottom_grad(d).fx.pass
                   = get_top_to_trunk_grad(d).fx.pass

\* What the initialization scheme gives a parameter of the given
\* fully-qualified name: zero for a bias, 1 for a normalization weight, the
\* depth-scaled normal for a residual projection (c_proj.weight), the
\* normal initializer for every other weight.
SchemeValue(nm) ==
    IF nm[Len(nm)] = "bias" THEN "zero"
    ELSE IF nm[Len(nm) - 1] \in {"ln_1", "ln_2", "ln_f"} THEN "one"
    ELSE IF nm[Len(nm) - 1] = "c_proj" THEN "normal_scaled"
    ELSE "normal"

\* C18: reset_params re-initializes every parameter it is given under its
\* fully-qualified name by that scheme, attention and MLP weights alike;
\* only wte and wpe under mode 'Embedding', and the parameters not given,
\* keep their values.
C18_ResetByScheme ==
    reset_call.called =>
        \A i \in 1..Len(ResetNames) :
            LET nm == ResetNames[i]
                given == \E j \in 1..Len(reset_call.given) : reset_call.given[j] = i
            IN  nm[1] = "transformer" =>
                  reset_call.data[i] =
                     IF ~given THEN "pretrained"
                     ELSE IF reset_call.mode = "Embedding" /\ nm[2] \in {"wte", "wpe"}
                     THEN "pretrained"
                     ELSE SchemeValue(nm)

====
